---- MODULE Spec2Model ----
(***************************************************************************)
(* Model of the Google Maps tool adapter: the provider client              *)
(* (google_maps_client.py) and the five tool handlers                      *)
(* (google_maps_tools.py).                                                 *)
(*                                                                         *)
(* Data representation                                                     *)
(*   - a Python str that the code inspects character by character          *)
(*     (price_level) is a sequence of one-character strings;               *)
(*   - an Optional[T] value is a sequence of length <= 1: None is <<>>     *)
(*     and a present value v is <<v>>;                                     *)
(*   - a Python dict is a function whose DOMAIN is its key set;            *)
(*   - a float rating r is the integer 10 * r (4.5 is 45);                 *)
(*   - the outcome of a call is Ok(v) (returned v) or Exc(m) (raised an    *)
(*     exception with message m).                                          *)
(***************************************************************************)
EXTENDS Integers, Sequences, FiniteSets, TLC

VARIABLES pc, handler, args, request, response, found, places, result,
          tasks, executor

vars == <<pc, handler, args, request, response, found, places, result,
          tasks, executor>>

----------------------------------------------------------------------------
(* Bounds of the model *)

MaxPriceLen == 3
MaxPlaces == 2
MaxTypes == 4
MaxRoutes == 2
MaxLegs == 2
MaxTasks == 2

----------------------------------------------------------------------------
(* Python values *)

None == <<>>
Some(v) == <<v>>
IsNone(o) == o = <<>>
Val(o) == o[1]

Ok(v) == [tag |-> "ok", val |-> v]
Exc(m) == [tag |-> "exc", msg |-> m]
IsOk(r) == r.tag = "ok"
IsExc(r) == r.tag = "exc"

EmptyDict == [k \in {} |-> None]

\* d.get(k): the value under k, or None
dict_get(d, k) == IF k \in DOMAIN d THEN Some(d[k]) ELSE None

\* d.get(k, default)
dict_get_default(d, k, default) == IF k \in DOMAIN d THEN d[k] ELSE default

\* {k1: v1, k2: v2, ...}: a later pair with the same key replaces an earlier one
dict_literal(pairs) ==
  [k \in {pairs[i][1] : i \in 1..Len(pairs)} |->
     pairs[CHOOSE i \in 1..Len(pairs) :
             /\ pairs[i][1] = k
             /\ \A j \in (i+1)..Len(pairs) : pairs[j][1] # k][2]]

\* d[k] = v on a dict
dict_set(d, k, v) == [x \in DOMAIN d \cup {k} |-> IF x = k THEN v ELSE d[x]]

\* truth value of an Optional[int] / Optional[float]: None and 0 are false
truthy_num(o) == ~IsNone(o) /\ Val(o) # 0

\* truth value of an Optional[list] (or of a str held as a sequence of
\* characters): None and the empty one are false
truthy_seq(o) == ~IsNone(o) /\ Val(o) # <<>>

\* truth value of an Optional[str]: None and "" are false
truthy_str(o) == ~IsNone(o) /\ Val(o) # ""

----------------------------------------------------------------------------
(* str.split and int *)

DigitChars == {"0", "1", "2", "3", "4", "5", "6", "7", "8", "9"}

DigitVal(c) ==
  CASE c = "0" -> 0 [] c = "1" -> 1 [] c = "2" -> 2 [] c = "3" -> 3
    [] c = "4" -> 4 [] c = "5" -> 5 [] c = "6" -> 6 [] c = "7" -> 7
    [] c = "8" -> 8 [] c = "9" -> 9

RECURSIVE str_split(_, _)
\* s.split(sep) for a one-character separator
str_split(s, sep) ==
  IF \A i \in 1..Len(s) : s[i] # sep
    THEN <<s>>
    ELSE LET i == CHOOSE i \in 1..Len(s) :
                    s[i] = sep /\ \A j \in 1..(i-1) : s[j] # sep
         IN  <<SubSeq(s, 1, i-1)>> \o str_split(SubSeq(s, i+1, Len(s)), sep)

RECURSIVE digits_value(_)
digits_value(s) ==
  IF s = <<>> THEN 0
  ELSE 10 * digits_value(SubSeq(s, 1, Len(s)-1)) + DigitVal(s[Len(s)])

\* int(s) for a string over digits, "-" separators already removed and no
\* whitespace, sign or underscore in the alphabet: a non-empty digit string
\* converts, anything else raises ValueError
int(s) ==
  IF s # <<>> /\ \A i \in 1..Len(s) : s[i] \in DigitChars
    THEN Ok(digits_value(s))
    ELSE Exc("invalid literal for int()")

\* a, b = map(int, parts): the assignment happens only when exactly two
\* parts convert; every other case raises ValueError
unpack2_int(parts) ==
  IF Len(parts) < 2 THEN Exc("not enough values to unpack")
  ELSE IF IsExc(int(parts[1])) THEN int(parts[1])
  ELSE IF IsExc(int(parts[2])) THEN int(parts[2])
  ELSE IF Len(parts) > 2 THEN
         (IF IsExc(int(parts[3])) THEN int(parts[3])
          ELSE Exc("too many values to unpack"))
  ELSE Ok(<<int(parts[1]).val, int(parts[2]).val>>)

\* the "Parse price level" block of the three search handlers:
\* <<min_price, max_price>>, both None unless the parse succeeded
parse_price_level(price_level) ==
  IF truthy_seq(price_level)
    THEN LET r == unpack2_int(str_split(Val(price_level), "-"))
         IN  IF IsOk(r) THEN <<Some(r.val[1]), Some(r.val[2])>>
             ELSE <<None, None>>
    ELSE <<None, None>>

----------------------------------------------------------------------------
(* google_maps_client.py *)

DefaultRadius == 5000
NearbyDefaultRadius == 1000

\* Location(lat, lng, address, place_id)
Location(lat, lng, address, place_id) ==
  [lat |-> lat, lng |-> lng, address |-> address, place_id |-> place_id]

\* opening_hours values: a dict, or a value of another type (a str)
PyDict(d) == [py |-> "dict", v |-> d]
PyStr(s) == [py |-> "str", v |-> s]
truthy_py(x) == IF x.py = "dict" THEN DOMAIN x.v # {} ELSE x.v # ""

\* x.get(k) on an opening_hours value: only a dict has .get
py_get(x, k) ==
  IF x.py = "dict" THEN Ok(dict_get(x.v, k))
  ELSE Exc("'str' object has no attribute 'get'")

\* the try block of _parse_place_result
parse_place_result_try(place_data) ==
  IF "geometry" \notin DOMAIN place_data THEN Exc("'geometry'")
  ELSE IF "location" \notin DOMAIN place_data["geometry"] THEN Exc("'location'")
  ELSE
    LET loc == place_data["geometry"]["location"]
        location == Location(loc.lat, loc.lng,
                             dict_get_default(place_data, "formatted_address", ""),
                             dict_get(place_data, "place_id"))
    IN  Ok([name |-> dict_get_default(place_data, "name", ""),
            address |-> dict_get_default(place_data, "formatted_address", ""),
            location |-> location,
            rating |-> dict_get(place_data, "rating"),
            price_level |-> dict_get(place_data, "price_level"),
            types |-> dict_get_default(place_data, "types", <<>>),
            photos |-> dict_get_default(place_data, "photos", <<>>),
            opening_hours |-> dict_get_default(place_data, "opening_hours",
                                               PyDict(EmptyDict)),
            phone |-> dict_get(place_data, "formatted_phone_number"),
            website |-> dict_get(place_data, "website")])

\* _parse_place_result: Optional[PlaceInfo], None when the try block raised
parse_place_result(place_data) ==
  LET r == parse_place_result_try(place_data)
  IN  IF IsOk(r) THEN Some(r.val) ELSE None

\* a radius test that forgets the ranking mode
include_radius_always(radius, rankby) == radius # 0

\* if radius and rankby != 'distance'
include_radius(radius, rankby) == radius # 0 /\ rankby # Some("distance")

\* the "Build search parameters" block of search_places_async: the keyword
\* arguments of gmaps.places
search_params(a) ==
  LET p1 == dict_literal(<< <<"query", a.query>> >>)
      p2 == IF ~IsNone(a.location)
              THEN dict_set(p1, "location",
                            <<Val(a.location).lat, Val(a.location).lng>>)
              ELSE p1
      p3 == IF include_radius(a.radius, a.rankby)
              THEN dict_set(p2, "radius", a.radius) ELSE p2
      p4 == IF truthy_str(a.type) THEN dict_set(p3, "type", Val(a.type)) ELSE p3
      p5 == IF truthy_str(a.language)
              THEN dict_set(p4, "language", Val(a.language)) ELSE p4
      p6 == IF ~IsNone(a.minprice)
              THEN dict_set(p5, "minprice", Val(a.minprice)) ELSE p5
      p7 == IF ~IsNone(a.maxprice)
              THEN dict_set(p6, "maxprice", Val(a.maxprice)) ELSE p6
      p8 == IF ~IsNone(a.opennow)
              THEN dict_set(p7, "opennow", Val(a.opennow)) ELSE p7
      p9 == IF truthy_str(a.rankby)
              THEN dict_set(p8, "rankby", Val(a.rankby)) ELSE p8
  IN  IF truthy_str(a.pagetoken)
        THEN dict_set(p9, "pagetoken", Val(a.pagetoken)) ELSE p9

RECURSIVE parse_results_stops(_)
\* a loop that ends at the first record that does not parse
parse_results_stops(rs) ==
  IF rs = <<>> THEN <<>>
  ELSE LET place_info == parse_place_result(Head(rs))
       IN  IF ~IsNone(place_info)
             THEN <<Val(place_info)>> \o parse_results_stops(Tail(rs))
             ELSE <<>>

RECURSIVE parse_results(_)
\* the loop over result.get('results', []): unparseable records are skipped
parse_results(rs) ==
  IF rs = <<>> THEN <<>>
  ELSE LET place_info == parse_place_result(Head(rs))
       IN  (IF ~IsNone(place_info) THEN <<Val(place_info)>> ELSE <<>>)
             \o parse_results(Tail(rs))

\* the try block of search_places_async, given the outcome of gmaps.places
search_places_try(outcome) ==
  IF IsExc(outcome) THEN outcome
  ELSE Ok(parse_results(dict_get_default(outcome.val, "results", <<>>)))

\* a search_places_async that lets the exception through
search_places_async_propagates(outcome) == search_places_try(outcome)

\* search_places_async: the list of PlaceInfo, [] when the try block raised
search_places_async(outcome) ==
  LET r == search_places_try(outcome)
  IN  IF IsOk(r) THEN r ELSE Ok(<<>>)

\* the arguments search_places_async binds when called with the keywords kw
\* (absent keywords take the defaults of its signature)
search_places_kwargs(kw) ==
  [query |-> kw["query"],
   location |-> dict_get(kw, "location"),
   radius |-> dict_get_default(kw, "radius", DefaultRadius),
   type |-> dict_get(kw, "type"),
   language |-> dict_get(kw, "language"),
   minprice |-> dict_get(kw, "minprice"),
   maxprice |-> dict_get(kw, "maxprice"),
   opennow |-> dict_get(kw, "opennow"),
   rankby |-> dict_get(kw, "rankby"),
   pagetoken |-> dict_get(kw, "pagetoken")]

\* the "Build search parameters" block of get_nearby_places: the keywords
\* it passes to search_places_async
nearby_search_params(a) ==
  LET p1 == dict_literal(<< <<"query", a.place_type>>,
                            <<"location", a.location>>,
                            <<"type", a.place_type>>,
                            <<"rankby", a.rankby>>,
                            <<"language", a.language>> >>)
      p2 == IF a.radius # 0 /\ a.rankby # "distance"
              THEN dict_set(p1, "radius", a.radius) ELSE p1
  IN  IF a.price_level # <<>>
        THEN dict_set(dict_set(p2, "minprice", Val(a.price_level)[1]),
                      "maxprice", Val(a.price_level)[2])
        ELSE p2

\* [place for place in places if place.rating and place.rating >= rating_min]
rating_comprehension(ps, rating_min) ==
  SelectSeq(ps, LAMBDA place :
                  truthy_num(place.rating) /\ Val(place.rating) >= rating_min)

\* the "Rating filter" / "Filter by rating" block
rating_filter(ps, rating_min) ==
  IF truthy_num(rating_min)
    THEN rating_comprehension(ps, Val(rating_min))
    ELSE ps

\* the try block of geocode_async, given the outcome of gmaps.geocode
geocode_try(outcome) ==
  IF IsExc(outcome) THEN outcome
  ELSE IF outcome.val # <<>>
    THEN LET r == outcome.val[1]
         IN  IF "geometry" \notin DOMAIN r THEN Exc("'geometry'")
             ELSE IF "formatted_address" \notin DOMAIN r
               THEN Exc("'formatted_address'")
             ELSE Ok(Some(Location(r["geometry"]["location"].lat,
                                   r["geometry"]["location"].lng,
                                   r["formatted_address"],
                                   dict_get(r, "place_id"))))
    ELSE Ok(None)

\* a geocode_async that lets the exception through
geocode_async_propagates(outcome) == geocode_try(outcome)

\* geocode_async: Optional[Location], None when the try block raised
geocode_async(outcome) ==
  LET r == geocode_try(outcome)
  IN  IF IsOk(r) THEN r ELSE Ok(None)

\* a leg choice that takes the last leg of the route
last_leg(route) == route["legs"][Len(route["legs"])]

\* leg = route['legs'][0]
first_leg(route) == route["legs"][1]

LegKeys == {"start_location", "start_address", "end_location", "end_address",
            "distance", "duration", "steps"}

\* the try block of get_directions_async, given the outcome of gmaps.directions
directions_try(outcome) ==
  IF IsExc(outcome) THEN outcome
  ELSE IF outcome.val # <<>>
    THEN LET route == outcome.val[1]
         IN  IF "legs" \notin DOMAIN route THEN Exc("'legs'")
             ELSE IF route["legs"] = <<>> THEN Exc("list index out of range")
             ELSE
               LET leg == first_leg(route)
               IN  IF ~(LegKeys \subseteq DOMAIN leg) THEN Exc("KeyError")
                   ELSE IF "overview_polyline" \notin DOMAIN route
                     THEN Exc("'overview_polyline'")
                   ELSE IF "points" \notin DOMAIN route["overview_polyline"]
                     THEN Exc("'points'")
                   ELSE
                     Ok(Some([origin |-> Location(leg["start_location"].lat,
                                                  leg["start_location"].lng,
                                                  leg["start_address"], None),
                              destination |-> Location(leg["end_location"].lat,
                                                       leg["end_location"].lng,
                                                       leg["end_address"], None),
                              distance |-> leg["distance"].text,
                              duration |-> leg["duration"].text,
                              steps |-> leg["steps"],
                              polyline |-> route["overview_polyline"].points]))
    ELSE Ok(None)

\* get_directions_async: Optional[RouteInfo], None when the try block raised
get_directions_async(outcome) ==
  LET r == directions_try(outcome)
  IN  IF IsOk(r) THEN r ELSE Ok(None)

----------------------------------------------------------------------------
(* google_maps_tools.py *)

TypesShown == 3

\* json.dumps(v) and a plain (non-JSON) text built from pieces
Json(v) == [kind |-> "json", body |-> v]
Text(pieces) == [kind |-> "text", body |-> pieces]

\* "Open now" if place.opening_hours and place.opening_hours.get('open_now')
\* else "Closed"
open_text(oh) ==
  IF ~truthy_py(oh) THEN Ok("Closed")
  ELSE LET g == py_get(oh, "open_now")
       IN  IF IsExc(g) THEN g
           ELSE Ok(IF g.val = Some(TRUE) THEN "Open now" ELSE "Closed")

\* {"open_now": ....get('open_now') if place.opening_hours else None,
\*  "weekday_text": ....get('weekday_text') if place.opening_hours else None}
hours_object(oh) ==
  IF ~truthy_py(oh)
    THEN Ok([open_now |-> None, weekday_text |-> None])
    ELSE IF IsExc(py_get(oh, "open_now")) THEN py_get(oh, "open_now")
    ELSE Ok([open_now |-> py_get(oh, "open_now").val,
             weekday_text |-> py_get(oh, "weekday_text").val])

\* a types field that is not cut
types_uncut(types) == types

\* place.types[:3] if place.types else []
types_shown(types) ==
  IF types # <<>>
    THEN SubSeq(types, 1, IF Len(types) < TypesShown THEN Len(types) ELSE TypesShown)
    ELSE <<>>

\* len(place.photos) if place.photos else 0
photo_count(photos) == IF photos # <<>> THEN Len(photos) ELSE 0

\* cuisine or "restaurant", attraction_type or 'attraction', hotel_type or 'hotel'
str_or(o, default) == IF truthy_str(o) THEN Val(o) ELSE default

\* the dict literal "optimized" of search_restaurants
restaurant_record(place, a) ==
  LET t == open_text(place.opening_hours)
      h == hours_object(place.opening_hours)
  IN  IF IsExc(t) THEN t
      ELSE IF IsExc(h) THEN h
      ELSE Ok(dict_literal(<<
        <<"type", "restaurant">>,
        <<"name", place.name>>,
        <<"address", place.address>>,
        <<"rating", place.rating>>,
        <<"price_level", place.price_level>>,
        <<"cuisine_type", str_or(a.cuisine, "restaurant")>>,
        <<"phone", place.phone>>,
        <<"website", place.website>>,
        <<"location", [lat |-> place.location.lat, lng |-> place.location.lng]>>,
        <<"operating_hours", t.val>>,
        <<"opening_hours", h.val>>,
        <<"business_status", "Operating">>,
        <<"reviews", <<0, " ratings">> >>,
        <<"recommendation_reason",
          <<"Great ", str_or(a.cuisine, "restaurant"), " in ", a.area>> >>,
        <<"place_id", place.location.place_id>>,
        <<"types", types_shown(place.types)>>,
        <<"photos", photo_count(place.photos)>> >>))

\* the dict literal "optimized" of search_attractions
attraction_record(place, a) ==
  LET t == open_text(place.opening_hours)
      h == hours_object(place.opening_hours)
  IN  IF IsExc(t) THEN t
      ELSE IF IsExc(h) THEN h
      ELSE Ok(dict_literal(<<
        <<"type", "attraction">>,
        <<"name", place.name>>,
        <<"address", place.address>>,
        <<"rating", place.rating>>,
        <<"price_level", place.price_level>>,
        <<"phone", place.phone>>,
        <<"website", place.website>>,
        <<"location", [lat |-> place.location.lat, lng |-> place.location.lng]>>,
        <<"opening_hours", t.val>>,
        <<"opening_hours", h.val>>,
        <<"description",
          <<"Popular ", str_or(a.attraction_type, "attraction"), " in ", a.area>> >>,
        <<"recommendation_reason",
          <<"Highly rated ", str_or(a.attraction_type, "attraction"),
            " in ", a.area>> >>,
        <<"place_id", place.location.place_id>>,
        <<"types", types_shown(place.types)>>,
        <<"photos", photo_count(place.photos)>> >>))

\* the dict literal "optimized" of search_hotels
hotel_record(place, a) ==
  LET t == open_text(place.opening_hours)
      h == hours_object(place.opening_hours)
  IN  IF IsExc(t) THEN t
      ELSE IF IsExc(h) THEN h
      ELSE Ok(dict_literal(<<
        <<"type", "hotel">>,
        <<"name", place.name>>,
        <<"address", place.address>>,
        <<"rating", place.rating>>,
        <<"price_level", place.price_level>>,
        <<"phone", place.phone>>,
        <<"website", place.website>>,
        <<"location", [lat |-> place.location.lat, lng |-> place.location.lng]>>,
        <<"operating_hours", t.val>>,
        <<"opening_hours", h.val>>,
        <<"business_status", "Operating">>,
        <<"reviews", <<0, " ratings">> >>,
        <<"recommendation_reason",
          <<"Great ", str_or(a.hotel_type, "hotel"), " in ", a.area>> >>,
        <<"place_id", place.location.place_id>>,
        <<"types", types_shown(place.types)>>,
        <<"photos", photo_count(place.photos)>> >>))

\* a record builder that leaves out the phone key of a place without phone
place_record_skips_null(h, place, a) ==
  LET r == CASE h = "search_restaurants" -> restaurant_record(place, a)
             [] h = "search_attractions" -> attraction_record(place, a)
             [] h = "search_hotels" -> hotel_record(place, a)
  IN  IF IsOk(r) /\ IsNone(place.phone)
        THEN Ok([k \in DOMAIN r.val \ {"phone"} |-> r.val[k]])
        ELSE r

\* the optimized record of one place, by handler
place_record(h, place, a) ==
  CASE h = "search_restaurants" -> restaurant_record(place, a)
    [] h = "search_attractions" -> attraction_record(place, a)
    [] h = "search_hotels" -> hotel_record(place, a)

RECURSIVE optimize(_, _, _)
\* the loop "for place in places: ... optimized_results.append(optimized)":
\* the first record that raises ends the loop
optimize(h, ps, a) ==
  IF ps = <<>> THEN Ok(<<>>)
  ELSE LET r == place_record(h, Head(ps), a)
       IN  IF IsExc(r) THEN r
           ELSE LET rest == optimize(h, Tail(ps), a)
                IN  IF IsExc(rest) THEN rest ELSE Ok(<<r.val>> \o rest.val)

\* a query that leaves out the area of a restaurant search
search_query_without_area(h, a) ==
  CASE h = "search_restaurants" ->
         (IF truthy_str(a.cuisine) THEN <<Val(a.cuisine), " restaurant">>
          ELSE <<"restaurant">>)
    [] h = "search_attractions" ->
         <<"tourist attractions in ", a.area>>
           \o (IF truthy_str(a.attraction_type)
                 THEN <<" ", Val(a.attraction_type)>> ELSE <<>>)
    [] h = "search_hotels" ->
         <<"hotels in ", a.area>>
           \o (IF truthy_str(a.hotel_type)
                 THEN <<" ", Val(a.hotel_type)>> ELSE <<>>)

\* the query of each search handler, as the pieces the f-strings join
search_query(h, a) ==
  CASE h = "search_restaurants" ->
         (IF truthy_str(a.cuisine) THEN <<Val(a.cuisine), " restaurant">>
          ELSE <<"restaurant">>) \o <<" in ", a.area>>
    [] h = "search_attractions" ->
         <<"tourist attractions in ", a.area>>
           \o (IF truthy_str(a.attraction_type)
                 THEN <<" ", Val(a.attraction_type)>> ELSE <<>>)
    [] h = "search_hotels" ->
         <<"hotels in ", a.area>>
           \o (IF truthy_str(a.hotel_type)
                 THEN <<" ", Val(a.hotel_type)>> ELSE <<>>)

\* the type each search handler passes
search_type(h) ==
  CASE h = "search_restaurants" -> "restaurant"
    [] h = "search_attractions" -> "tourist_attraction"
    [] h = "search_hotels" -> "lodging"

\* the arguments of the handler's call client.search_places_async(...)
handler_search_args(h, a) ==
  LET pp == parse_price_level(a.price_level)
  IN  [query |-> search_query(h, a),
       location |-> None,
       radius |-> a.radius,
       type |-> Some(search_type(h)),
       language |-> Some("en"),
       minprice |-> pp[1],
       maxprice |-> pp[2],
       opennow |-> None,
       rankby |-> None,
       pagetoken |-> None]

\* the try block of a search handler, given the outcome of gmaps.places
search_handler_try(h, a, outcome) ==
  LET fnd == search_places_async(outcome)
  IN  IF IsExc(fnd) THEN fnd
      ELSE LET opt == optimize(h, rating_filter(fnd.val, a.rating_min), a)
           IN  IF IsExc(opt) THEN opt ELSE Ok(Json(opt.val))

FailedPrefix(h) ==
  CASE h = "search_restaurants" -> "Failed to search restaurants: "
    [] h = "search_attractions" -> "Failed to search attractions: "
    [] h = "search_hotels" -> "Failed to search hotels: "
    [] h = "get_directions" -> "Failed to get directions: "
    [] h = "get_location_info" -> "Failed to get location information: "

\* a handler without its except clause
handler_reraise(h, r) == r

\* except Exception as e: return f"Failed to ...: {str(e)}"
handler_except(h, r) ==
  IF IsExc(r) THEN Ok(Text(<<FailedPrefix(h), r.msg>>)) ELSE r

\* a search handler as a whole: the string it returns
search_handler(h, a, outcome) == handler_except(h, search_handler_try(h, a, outcome))

\* the try block of get_directions
get_directions_try(a, outcome) ==
  LET r == get_directions_async(outcome)
  IN  IF IsExc(r) THEN r
      ELSE IF ~IsNone(r.val)
        THEN LET route == Val(r.val)
             IN  Ok(Json([origin |-> [address |-> route.origin.address,
                                      lat |-> route.origin.lat,
                                      lng |-> route.origin.lng],
                          destination |-> [address |-> route.destination.address,
                                           lat |-> route.destination.lat,
                                           lng |-> route.destination.lng],
                          distance |-> route.distance,
                          duration |-> route.duration,
                          steps |-> route.steps,
                          mode |-> a.mode]))
        ELSE Ok(Json([error |-> "Unable to get route information"]))

\* the try block of get_location_info
get_location_info_try(a, outcome) ==
  LET r == geocode_async(outcome)
  IN  IF IsExc(r) THEN r
      ELSE IF ~IsNone(r.val)
        THEN LET location == Val(r.val)
             IN  Ok(Json([address |-> location.address,
                          lat |-> location.lat,
                          lng |-> location.lng,
                          place_id |-> location.place_id]))
        ELSE Ok(Json([error |-> "Unable to find this address"]))

----------------------------------------------------------------------------
(* Inputs and provider outcomes *)

RECURSIVE SeqsUpTo(_, _)
\* the sequences over S of length at most n
SeqsUpTo(S, n) ==
  IF n = 0 THEN {<<>>}
  ELSE LET shorter == SeqsUpTo(S, n - 1)
       IN  shorter \cup {Append(q, x) : q \in {t \in shorter : Len(t) = n - 1}, x \in S}

PriceChars == {"2", "3", "7", "-", "b"}
\* the price_level "bad-input"
BadInput == <<"b", "a", "d", "-", "i", "n", "p", "u", "t">>
PriceLevels ==
  {None, Some(BadInput)} \cup {Some(q) : q \in SeqsUpTo(PriceChars, MaxPriceLen)}
RatingMins == {None, Some(0), Some(40)}
Radii == {0, NearbyDefaultRadius, DefaultRadius}
HandlerRadii == {NearbyDefaultRadius, DefaultRadius}
Areas == {"Shibuya", "Tokyo"}
Kinds == {None, Some("ramen")}

TypeNames == <<"restaurant", "food", "point_of_interest", "establishment",
               "store", "bar", "cafe", "museum">>
Geometry == [location |-> [lat |-> 356, lng |-> 1397]]

\* a provider record with every optional field
PlaceFull ==
  [geometry |-> Geometry, name |-> "Ichiran", formatted_address |-> "1-1 Jinnan",
   rating |-> 45, price_level |-> 2, types |-> SubSeq(TypeNames, 1, MaxTypes),
   photos |-> <<"ph1", "ph2">>,
   opening_hours |-> PyDict([open_now |-> TRUE, weekday_text |-> <<"Mon: 9-17">>]),
   formatted_phone_number |-> "03-1234", website |-> "https://ichiran.example",
   place_id |-> "pid1"]
\* a provider record with no optional field
PlaceMinimal == [geometry |-> Geometry]
\* a provider record without coordinates
PlaceNoGeometry == [name |-> "Ghost", rating |-> 45, place_id |-> "pid3"]
\* a closed place rated exactly 4.0
PlaceClosed ==
  [geometry |-> Geometry, name |-> "Afuri", rating |-> 40,
   types |-> SubSeq(TypeNames, 1, 2),
   opening_hours |-> PyDict([open_now |-> FALSE]), place_id |-> "pid4"]
\* a malformed record: opening_hours is not a dict
PlaceBadHours ==
  [geometry |-> Geometry, name |-> "Odd", rating |-> 30,
   opening_hours |-> PyStr("24h")]

RawPlaces == {PlaceFull, PlaceMinimal, PlaceNoGeometry, PlaceClosed, PlaceBadHours}

ProviderErrors == {"REQUEST_DENIED"}

\* what gmaps.places can do: raise, or return a response dict
PlacesOutcomes ==
  {Exc(m) : m \in ProviderErrors}
    \cup {Ok(EmptyDict)}
    \cup {Ok([results |-> rs]) : rs \in SeqsUpTo(RawPlaces, MaxPlaces)}

\* The outgoing request is built from the arguments alone and the provider's
\* answer is read only after it: a search is run with every price_level
\* against the common provider outcomes, and with the common price levels
\* against every provider outcome.
CommonPriceLevels == {None, Some(<<"2", "-", "3">>), Some(<<"b">>)}
CommonOutcomes ==
  {Exc(m) : m \in ProviderErrors}
    \cup {Ok([results |-> rs]) : rs \in {<<>>, <<PlaceFull>>, <<PlaceBadHours>>}}
PriceAndOutcome ==
  (PriceLevels \X CommonOutcomes) \cup (CommonPriceLevels \X PlacesOutcomes)

GeoFull == [geometry |-> Geometry, formatted_address |-> "Tokyo Tower, Minato",
            place_id |-> "pid9"]
GeoResults == {GeoFull,
               [geometry |-> Geometry, formatted_address |-> "Shibuya, Tokyo"],
               [formatted_address |-> "Tokyo Tower, Minato"]}

\* what gmaps.geocode can do
GeocodeOutcomes ==
  {Exc(m) : m \in ProviderErrors}
    \cup {Ok(rs) : rs \in SeqsUpTo(GeoResults, MaxPlaces)}

LegA == [start_location |-> [lat |-> 1, lng |-> 2], start_address |-> "Tokyo Station",
         end_location |-> [lat |-> 3, lng |-> 4], end_address |-> "Tokyo Tower",
         distance |-> [text |-> "3.2 km"], duration |-> [text |-> "15 mins"],
         steps |-> <<"walk", "ride">>]
LegB == [start_location |-> [lat |-> 3, lng |-> 4], start_address |-> "Tokyo Tower",
         end_location |-> [lat |-> 5, lng |-> 6], end_address |-> "Shibuya",
         distance |-> [text |-> "5 km"], duration |-> [text |-> "20 mins"],
         steps |-> <<"ride">>]
\* a malformed leg: no distance
LegBad == [start_location |-> [lat |-> 1, lng |-> 2], start_address |-> "Tokyo Station",
           end_location |-> [lat |-> 3, lng |-> 4], end_address |-> "Tokyo Tower",
           duration |-> [text |-> "15 mins"], steps |-> <<>>]
Legs == {LegA, LegB, LegBad}

Routes ==
  {[legs |-> ls, overview_polyline |-> [points |-> "a~l~F"]] :
     ls \in SeqsUpTo(Legs, MaxLegs)}
    \cup {[legs |-> ls, overview_polyline |-> EmptyDict] :
            ls \in SeqsUpTo(Legs, MaxLegs)}
    \cup {[legs |-> ls] : ls \in SeqsUpTo(Legs, MaxLegs)}

\* the alternative routes that may follow the first one
LaterRoutes ==
  {[legs |-> <<LegB>>, overview_polyline |-> [points |-> "b~m~G"]],
   [legs |-> <<>>]}

\* what gmaps.directions can do: raise, or return up to MaxRoutes routes
DirectionsOutcomes ==
  {Exc(m) : m \in ProviderErrors}
    \cup {Ok(<<>>)}
    \cup {Ok(<<first>> \o rest) :
            first \in Routes, rest \in SeqsUpTo(LaterRoutes, MaxRoutes - 1)}

Modes == {"transit", "walking"}

----------------------------------------------------------------------------
(* The tool surface: one invocation at a time, each an independent call *)

SearchHandlers == {"search_restaurants", "search_attractions", "search_hotels"}

\* the handler invocations that may be in flight at once
Tasks == 1..MaxTasks

\* the frame of an invocation that has not started
IdleFrame ==
  [pc |-> "idle", handler |-> "none", args |-> None, sent |-> None,
   future |-> None, result |-> None]

Init ==
  /\ pc = "idle"
  /\ handler = "none"
  /\ args = EmptyDict
  /\ request = EmptyDict
  /\ response = Ok(EmptyDict)
  /\ found = <<>>
  /\ places = <<>>
  /\ result = Ok(Json(<<>>))
  /\ tasks = [t \in Tasks |-> IdleFrame]
  /\ executor = <<>>

\* the state after a search handler ran with arguments a against outcome
SearchDone(h, a, outcome) ==
  /\ pc' = "done"
  /\ handler' = h
  /\ args' = a
  /\ request' = search_params(handler_search_args(h, a))
  /\ response' = outcome
  /\ found' = (IF IsOk(search_places_async(outcome))
                 THEN search_places_async(outcome).val ELSE <<>>)
  /\ places' = rating_filter(found', a.rating_min)
  /\ result' = search_handler(h, a, outcome)
  /\ UNCHANGED <<tasks, executor>>

search_restaurants ==
  /\ pc = "idle"
  /\ \E area \in Areas, cuisine \in Kinds, rating_min \in RatingMins,
        radius \in HandlerRadii, po \in PriceAndOutcome :
       SearchDone("search_restaurants",
                  [area |-> area, cuisine |-> cuisine, price_level |-> po[1],
                   rating_min |-> rating_min, radius |-> radius],
                  po[2])

search_attractions ==
  /\ pc = "idle"
  /\ \E area \in Areas, attraction_type \in Kinds, rating_min \in RatingMins,
        radius \in HandlerRadii, po \in PriceAndOutcome :
       SearchDone("search_attractions",
                  [area |-> area, attraction_type |-> attraction_type, price_level |-> po[1],
                   rating_min |-> rating_min, radius |-> radius],
                  po[2])

search_hotels ==
  /\ pc = "idle"
  /\ \E area \in Areas, hotel_type \in Kinds, rating_min \in RatingMins,
        radius \in HandlerRadii, po \in PriceAndOutcome :
       SearchDone("search_hotels",
                  [area |-> area, hotel_type |-> hotel_type, price_level |-> po[1],
                   rating_min |-> rating_min, radius |-> radius],
                  po[2])

get_directions ==
  /\ pc = "idle"
  /\ \E mode \in Modes, outcome \in DirectionsOutcomes :
       LET a == [origin |-> "Tokyo Station", destination |-> "Tokyo Tower",
                 mode |-> mode]
       IN  /\ pc' = "done"
           /\ handler' = "get_directions"
           /\ args' = a
           /\ request' = a
           /\ response' = outcome
           /\ found' = <<>>
           /\ places' = <<>>
           /\ result' = handler_except("get_directions",
                                       get_directions_try(a, outcome))
           /\ UNCHANGED <<tasks, executor>>

get_location_info ==
  /\ pc = "idle"
  /\ \E address \in {"Tokyo Tower, Tokyo, Japan", "qqqq"},
        outcome \in GeocodeOutcomes :
       LET a == [address |-> address]
       IN  /\ pc' = "done"
           /\ handler' = "get_location_info"
           /\ args' = a
           /\ request' = a
           /\ response' = outcome
           /\ found' = <<>>
           /\ places' = <<>>
           /\ result' = handler_except("get_location_info",
                                       get_location_info_try(a, outcome))
           /\ UNCHANGED <<tasks, executor>>

\* the arguments of a direct call of search_places_async
SearchArgs ==
  {[query |-> "cafe", location |-> location, radius |-> radius, type |-> type,
    language |-> language, minprice |-> minprice, maxprice |-> maxprice,
    opennow |-> opennow, rankby |-> rankby, pagetoken |-> pagetoken] :
     location \in {None, Some(Location(356, 1397, "Shibuya", None))},
     radius \in Radii, type \in {None, Some("cafe")},
     language \in {None, Some("ja")},
     minprice \in {None, Some(0)}, maxprice \in {None, Some(4)},
     opennow \in {None, Some(TRUE), Some(FALSE)},
     rankby \in {None, Some("prominence"), Some("distance")},
     pagetoken \in {None, Some("tok")}}

\* search_places_async(query) with every other argument at its default
DefaultSearchArgs ==
  [query |-> "cafe", location |-> None, radius |-> DefaultRadius, type |-> None,
   language |-> None, minprice |-> None, maxprice |-> None, opennow |-> None,
   rankby |-> None, pagetoken |-> None]

\* GoogleMapsClient.search_places_async called directly: every argument
\* combination against the common outcomes, the default call against all
search_places ==
  /\ pc = "idle"
  /\ \E ao \in (SearchArgs \X CommonOutcomes)
                 \cup ({DefaultSearchArgs} \X PlacesOutcomes) :
       LET a == ao[1]
           outcome == ao[2]
       IN  /\ pc' = "done"
           /\ handler' = "search_places_async"
           /\ args' = a
           /\ request' = search_params(a)
           /\ response' = outcome
           /\ found' = (IF IsOk(search_places_async(outcome))
                          THEN search_places_async(outcome).val ELSE <<>>)
           /\ places' = found'
           /\ result' = search_places_async(outcome)
           /\ UNCHANGED <<tasks, executor>>

\* GoogleMapsClient.get_nearby_places
get_nearby_places ==
  /\ pc = "idle"
  /\ \E radius \in Radii, price_level \in {None, Some(<<1, 3>>)},
        rating_min \in RatingMins, rankby \in {"prominence", "distance"},
        outcome \in PlacesOutcomes :
       LET a == [location |-> Location(356, 1397, "Shibuya", None),
                 place_type |-> "restaurant", radius |-> radius,
                 price_level |-> price_level, rating_min |-> rating_min,
                 rankby |-> rankby, language |-> "en"]
           r == search_places_async(outcome)
       IN  /\ pc' = "done"
           /\ handler' = "get_nearby_places"
           /\ args' = a
           /\ request' = search_params(search_places_kwargs(nearby_search_params(a)))
           /\ response' = outcome
           /\ found' = (IF IsOk(r) THEN r.val ELSE <<>>)
           /\ places' = rating_filter(found', a.rating_min)
           /\ result' = (IF IsOk(r) THEN Ok(places') ELSE r)
           /\ UNCHANGED <<tasks, executor>>

\* the caller takes the returned value; the next invocation starts afresh
tool_return ==
  /\ pc = "done"
  /\ pc' = "idle"
  /\ handler' = "none"
  /\ args' = EmptyDict
  /\ request' = EmptyDict
  /\ response' = Ok(EmptyDict)
  /\ found' = <<>>
  /\ places' = <<>>
  /\ result' = Ok(Json(<<>>))
  /\ UNCHANGED <<tasks, executor>>

Next ==
  \/ search_restaurants
  \/ search_attractions
  \/ search_hotels
  \/ get_directions
  \/ get_location_info
  \/ search_places
  \/ get_nearby_places
  \/ tool_return

Spec == Init /\ [][Next]_vars

----------------------------------------------------------------------------
(* Concurrent invocations on the one client: a handler runs on the event    *)
(* loop up to its await, its provider call runs on an executor thread, and  *)
(* the handler resumes on the event loop when the call is over              *)

\* the provider operation a handler awaits
handler_api(h) ==
  CASE h \in SearchHandlers -> "places"
    [] h = "get_directions" -> "directions"
    [] h = "get_location_info" -> "geocode"

\* the arguments the handler's callable carries to the provider
provider_call_args(h, a) ==
  IF h \in SearchHandlers THEN search_params(handler_search_args(h, a)) ELSE a

\* what the handler does after its await: the string it returns
handler_result(h, a, outcome) ==
  CASE h \in SearchHandlers -> search_handler(h, a, outcome)
    [] h = "get_directions" ->
         handler_except(h, get_directions_try(a, outcome))
    [] h = "get_location_info" ->
         handler_except(h, get_location_info_try(a, outcome))

\* a callable that reads the arguments of the latest submitted call
job_params_latest(jobs, j) == jobs[Len(jobs)].params

\* lambda: self.gmaps.places(**search_params): the callable carries the
\* arguments its own invocation built
job_params(jobs, j) == jobs[j].params

\* the invocations run concurrently
ConcCalls ==
  {<<"search_restaurants",
     [area |-> "Shibuya", cuisine |-> Some("ramen"),
      price_level |-> Some(<<"2", "-", "3">>), rating_min |-> Some(40),
      radius |-> DefaultRadius]>>,
   <<"search_attractions",
     [area |-> "Tokyo", attraction_type |-> Some("museum"),
      price_level |-> None, rating_min |-> None, radius |-> NearbyDefaultRadius]>>,
   <<"search_hotels",
     [area |-> "Tokyo", hotel_type |-> None, price_level |-> Some(BadInput),
      rating_min |-> None, radius |-> DefaultRadius]>>,
   <<"get_directions",
     [origin |-> "Tokyo Station", destination |-> "Tokyo Tower",
      mode |-> "transit"]>>,
   <<"get_location_info", [address |-> "Tokyo Tower, Tokyo, Japan"]>>}

\* the provider outcomes of a concurrent call, by operation
ConcOutcomes(api) ==
  CASE api = "places" ->
         {Exc("REQUEST_DENIED"), Ok([results |-> <<PlaceFull, PlaceBadHours>>])}
    [] api = "directions" ->
         {Ok(<<>>),
          Ok(<<[legs |-> <<LegA>>, overview_polyline |-> [points |-> "a~l~F"]]>>)}
    [] api = "geocode" -> {Ok(<<>>), Ok(<<GeoFull>>)}

\* the sequence q without its j-th element
RemoveAt(q, j) == SubSeq(q, 1, j - 1) \o SubSeq(q, j + 1, Len(q))

\* a handler is invoked and runs to its await: it builds the provider call
\* and hands it to the executor (loop.run_in_executor)
handler_start(t) ==
  /\ tasks[t].pc = "idle"
  /\ \E call \in ConcCalls :
       /\ tasks' = [tasks EXCEPT ![t] =
                      [pc |-> "awaiting", handler |-> call[1],
                       args |-> Some(call[2]), sent |-> None,
                       future |-> None, result |-> None]]
       /\ executor' = Append(executor,
                             [task |-> t, api |-> handler_api(call[1]),
                              params |-> provider_call_args(call[1], call[2])])
  /\ UNCHANGED <<pc, handler, args, request, response, found, places, result>>

\* an executor thread runs one submitted call against the provider and
\* resolves the future of the invocation that submitted it
executor_run ==
  /\ \E j \in 1..Len(executor) :
       \E outcome \in ConcOutcomes(executor[j].api) :
         /\ tasks' = [tasks EXCEPT ![executor[j].task] =
                        [@ EXCEPT !.pc = "ready",
                                  !.sent = Some(job_params(executor, j)),
                                  !.future = Some(outcome)]]
         /\ executor' = RemoveAt(executor, j)
  /\ UNCHANGED <<pc, handler, args, request, response, found, places, result>>

\* the handler resumes after its await and returns its string
handler_resume(t) ==
  /\ tasks[t].pc = "ready"
  /\ tasks' = [tasks EXCEPT ![t] =
                 [@ EXCEPT !.pc = "done",
                           !.result = Some(handler_result(tasks[t].handler,
                                                          Val(tasks[t].args),
                                                          Val(tasks[t].future)))]]
  /\ UNCHANGED <<pc, handler, args, request, response, found, places, result,
                 executor>>

\* the caller takes the returned string
handler_returned(t) ==
  /\ tasks[t].pc = "done"
  /\ tasks' = [tasks EXCEPT ![t] = IdleFrame]
  /\ UNCHANGED <<pc, handler, args, request, response, found, places, result,
                 executor>>

NextConc ==
  \/ \E t \in Tasks : handler_start(t)
  \/ executor_run
  \/ \E t \in Tasks : handler_resume(t)
  \/ \E t \in Tasks : handler_returned(t)

SpecConc == Init /\ [][NextConc]_vars

----------------------------------------------------------------------------
(* Properties *)

Done(h) == pc = "done" /\ handler = h
SearchDoneState == pc = "done" /\ handler \in SearchHandlers

\* the records of a search handler's JSON output (none when it returned text)
OutputRecords ==
  IF IsOk(result) /\ result.val.kind = "json" THEN result.val.body ELSE <<>>

\* s is "<min>-<max>": two non-empty digit strings around one dash
IsMinMaxString(s) ==
  \E i \in 1..Len(s) :
    /\ s[i] = "-"
    /\ i > 1 /\ i < Len(s)
    /\ \A j \in 1..Len(s) : j # i => s[j] \in DigitChars

DashAt(s) == CHOOSE i \in 1..Len(s) : s[i] = "-"
MinOf(s) == digits_value(SubSeq(s, 1, DashAt(s) - 1))
MaxOf(s) == digits_value(SubSeq(s, DashAt(s) + 1, Len(s)))

\* a valid price-level string: "<min>-<max>" with both values on the 0-4 scale
IsValidPriceString(s) ==
  IsMinMaxString(s) /\ MinOf(s) \in 0..4 /\ MaxOf(s) \in 0..4

\* C1: in the three search handlers a valid "<min>-<max>" price_level puts
\* minprice=<min> and maxprice=<max> in the outgoing request; a malformed one
\* (non-numeric, no dash, or a value outside 0..4) puts neither in it, and the
\* handler returns what it returns without a price_level
C1_PriceFilter ==
  (SearchDoneState /\ ~IsNone(args.price_level)) =>
    LET s == Val(args.price_level)
    IN  IF IsValidPriceString(s)
          THEN /\ "minprice" \in DOMAIN request /\ request["minprice"] = MinOf(s)
               /\ "maxprice" \in DOMAIN request /\ request["maxprice"] = MaxOf(s)
          ELSE /\ "minprice" \notin DOMAIN request
               /\ "maxprice" \notin DOMAIN request
               /\ IsOk(result)
               /\ result = search_handler(handler,
                                          [args EXCEPT !.price_level = None],
                                          response)

\* the places of ps whose rating is present and at least the threshold
RatedAtLeast(ps, threshold) ==
  SelectSeq(ps, LAMBDA p : ~IsNone(p.rating) /\ Val(p.rating) >= threshold)

\* C2: whenever a rating_min threshold was supplied (0 included), the rating
\* filter of the search handlers and of get_nearby_places keeps exactly the
\* places with a present rating >= the threshold, in their original order
C2_RatingFilter ==
  (pc = "done" /\ handler \in SearchHandlers \cup {"get_nearby_places"}
     /\ ~IsNone(args.rating_min)) =>
    places = RatedAtLeast(found, Val(args.rating_min))

\* C3: a call of search_places_async or get_nearby_places with
\* rankby == "distance" hands the provider no radius, whatever the radius
C3_NoRadiusWhenDistance ==
  /\ (Done("search_places_async") /\ args.rankby = Some("distance"))
       => "radius" \notin DOMAIN request
  /\ (Done("get_nearby_places") /\ args.rankby = "distance")
       => "radius" \notin DOMAIN request

\* C3 witness: get_nearby_places ranked by distance with its default radius
C3_Witness ==
  /\ Done("get_nearby_places")
  /\ args.rankby = "distance"
  /\ args.radius = NearbyDefaultRadius
  /\ "rankby" \in DOMAIN request /\ request["rankby"] = "distance"
  /\ "radius" \notin DOMAIN request

\* the provider records of the response (none when the call raised)
RawResults ==
  IF IsOk(response) /\ "results" \in DOMAIN response.val
    THEN response.val["results"] ELSE <<>>

\* the optional provider fields and the output key each one feeds
OptionalFields ==
  {<<"rating", "rating">>, <<"price_level", "price_level">>,
   <<"types", "types">>, <<"photos", "photos">>,
   <<"opening_hours", "opening_hours">>,
   <<"formatted_phone_number", "phone">>, <<"website", "website">>,
   <<"place_id", "place_id">>}

\* the value an output key takes when its provider field is missing
MissingDefault(key) ==
  CASE key = "types" -> <<>>
    [] key = "photos" -> 0
    [] key = "opening_hours" -> [open_now |-> None, weekday_text |-> None]
    [] OTHER -> None

\* the key set of the record the handler builds for a fully populated place
FullRecordKeys == DOMAIN place_record(handler, Val(parse_place_result(PlaceFull)), args).val

\* C4: every output record of a search handler has the key set of the record
\* of a fully populated place, whichever optional provider fields the source
\* place had; a missing provider field shows as null, [] or 0 under its key
C4_FixedKeys ==
  SearchDoneState =>
    /\ \A i \in 1..Len(OutputRecords) :
         /\ DOMAIN OutputRecords[i] = FullRecordKeys
         /\ {f[2] : f \in OptionalFields} \subseteq DOMAIN OutputRecords[i]
         /\ IsNone(places[i].rating) => OutputRecords[i]["rating"] = None
         /\ IsNone(places[i].phone) => OutputRecords[i]["phone"] = None
         /\ places[i].types = <<>> => OutputRecords[i]["types"] = <<>>
         /\ places[i].photos = <<>> => OutputRecords[i]["photos"] = 0
    /\ (Len(RawResults) = 1 /\ Len(OutputRecords) = 1) =>
         \A f \in OptionalFields :
           f[1] \notin DOMAIN RawResults[1] =>
             OutputRecords[1][f[2]] = MissingDefault(f[2])

\* C4 witness: the record of a place that had no optional field at all
C4_Witness ==
  /\ SearchDoneState
  /\ RawResults = <<PlaceMinimal>>
  /\ Len(OutputRecords) = 1
  /\ OutputRecords[1]["rating"] = None
  /\ OutputRecords[1]["photos"] = 0

\* the text the open_now flag of a place gives
OpenText(place) ==
  IF place.opening_hours.py = "dict"
       /\ "open_now" \in DOMAIN place.opening_hours.v
       /\ place.opening_hours.v["open_now"] = TRUE
    THEN "Open now" ELSE "Closed"

\* C5: every output record of the three search handlers carries a text field
\* ("Open now" / "Closed", from open_now) and, beside it, an opening_hours
\* object with the keys open_now and weekday_text
C5_OpenTextAndHours ==
  SearchDoneState =>
    \A i \in 1..Len(OutputRecords) :
      /\ "operating_hours" \in DOMAIN OutputRecords[i]
      /\ OutputRecords[i]["operating_hours"] = OpenText(places[i])
      /\ "opening_hours" \in DOMAIN OutputRecords[i]
      /\ DOMAIN OutputRecords[i]["opening_hours"] = {"open_now", "weekday_text"}

ErrorJson(text) == Ok(Json([error |-> text]))

\* the output get_directions builds from one leg and the mode
LegOutput(leg, mode) ==
  IF LegKeys \subseteq DOMAIN leg
    THEN Ok(Json([origin |-> [address |-> leg["start_address"],
                              lat |-> leg["start_location"].lat,
                              lng |-> leg["start_location"].lng],
                  destination |-> [address |-> leg["end_address"],
                                   lat |-> leg["end_location"].lat,
                                   lng |-> leg["end_location"].lng],
                  distance |-> leg["distance"].text,
                  duration |-> leg["duration"].text,
                  steps |-> leg["steps"],
                  mode |-> mode]))
    ELSE ErrorJson("Unable to get route information")

\* the provider returned at least one route and its first route has a leg
HasFirstLeg ==
  /\ IsOk(response) /\ response.val # <<>>
  /\ "legs" \in DOMAIN response.val[1] /\ response.val[1]["legs"] # <<>>

\* the first route carries overview_polyline.points
HasPolyline ==
  /\ "overview_polyline" \in DOMAIN response.val[1]
  /\ "points" \in DOMAIN response.val[1]["overview_polyline"]

\* C6 as stated: with a first route that has a leg, the output of
\* get_directions is a function of that leg and the mode alone; with zero
\* routes it is {"error": "Unable to get route information"}
C6_FirstLegOnly ==
  Done("get_directions") =>
    /\ HasFirstLeg => result = LegOutput(response.val[1]["legs"][1], args.mode)
    /\ (IsOk(response) /\ response.val = <<>>) =>
         result = ErrorJson("Unable to get route information")

\* C6 amended: with a first route that has a leg and carries
\* overview_polyline.points, the output of get_directions is a function of
\* that leg and the mode alone (later legs and routes never matter); a first
\* route without overview_polyline.points gives the error JSON whatever its
\* legs; with zero routes the output is
\* {"error": "Unable to get route information"}
C6_FirstLegGivenPolyline ==
  Done("get_directions") =>
    /\ (HasFirstLeg /\ HasPolyline) =>
         result = LegOutput(response.val[1]["legs"][1], args.mode)
    /\ (HasFirstLeg /\ ~HasPolyline) =>
         result = ErrorJson("Unable to get route information")
    /\ (IsOk(response) /\ response.val = <<>>) =>
         result = ErrorJson("Unable to get route information")

\* C6 witness: two routes, the first with two different legs, answered from
\* the first leg
C6_Witness ==
  /\ Done("get_directions")
  /\ HasFirstLeg /\ HasPolyline
  /\ Len(response.val) = 2
  /\ response.val[1]["legs"] = <<LegA, LegB>>
  /\ result.val.kind = "json"
  /\ "distance" \in DOMAIN result.val.body
  /\ result.val.body.distance = "3.2 km"

\* C7: get_location_info answers {"error": "Unable to find this address"}
\* both when the provider finds nothing and when the provider call raises
C7_NoMatchOrError ==
  Done("get_location_info") =>
    /\ (IsOk(response) /\ response.val = <<>>) =>
         result = ErrorJson("Unable to find this address")
    /\ IsExc(response) => result = ErrorJson("Unable to find this address")

\* C7 witness: the provider call raised and the caller got the no-match JSON
C7_Witness ==
  /\ Done("get_location_info")
  /\ IsExc(response)
  /\ result = ErrorJson("Unable to find this address")

Handlers == SearchHandlers \cup {"get_directions", "get_location_info"}

\* the "Failed to <action>: " text of each handler
FailedTo(h) ==
  CASE h = "search_restaurants" -> "Failed to search restaurants: "
    [] h = "search_attractions" -> "Failed to search attractions: "
    [] h = "search_hotels" -> "Failed to search hotels: "
    [] h = "get_directions" -> "Failed to get directions: "
    [] h = "get_location_info" -> "Failed to get location information: "

\* a place whose record cannot be built reached the handler's loop
RecordRaises ==
  /\ handler \in SearchHandlers
  /\ \E i \in 1..Len(places) : places[i].opening_hours.py # "dict"

\* C8: each of the five handlers ends by returning a string, never by
\* raising; the string is the plain text "Failed to <action>: <message>"
\* exactly when an exception reached the handler's own try/except
C8_AlwaysAString ==
  (pc = "done" /\ handler \in Handlers) =>
    /\ IsOk(result)
    /\ result.val.kind \in {"json", "text"}
    /\ RecordRaises <=> result.val.kind = "text"
    /\ result.val.kind = "text" =>
         /\ Len(result.val.body) = 2
         /\ result.val.body[1] = FailedTo(handler)
         /\ result.val.body[2] = "'str' object has no attribute 'get'"

\* C8 witness: a malformed record made search_hotels return the plain text
C8_Witness ==
  /\ Done("search_hotels")
  /\ RecordRaises
  /\ IsOk(result) /\ result.val.kind = "text"

\* C9: when the provider's place search raises, search_places_async returns
\* [] and the search handlers return the JSON empty array, as they do for a
\* search with zero results
C9_SearchErrorIsEmpty ==
  /\ (Done("search_places_async") /\ IsExc(response)) => result = Ok(<<>>)
  /\ (SearchDoneState /\ IsExc(response)) =>
       found = <<>> /\ result = Ok(Json(<<>>))
  /\ (SearchDoneState /\ IsOk(response) /\ RawResults = <<>>) =>
       result = Ok(Json(<<>>))

\* C9 witness: the provider raised under search_attractions
C9_Witness ==
  /\ Done("search_attractions")
  /\ IsExc(response)
  /\ result = Ok(Json(<<>>))

\* C10: the types of an output record are the first 3 category tags of its
\* place, in order, or all of them when the place has fewer
C10_TypesAtMostThree ==
  SearchDoneState =>
    \A i \in 1..Len(OutputRecords) :
      LET shown == OutputRecords[i]["types"]
          tags == places[i].types
      IN  /\ Len(shown) <= 3
          /\ Len(shown) = (IF Len(tags) < 3 THEN Len(tags) ELSE 3)
          /\ \A j \in 1..Len(shown) : shown[j] = tags[j]
          /\ (Len(RawResults) = 1 /\ "types" \in DOMAIN RawResults[1]) =>
               tags = RawResults[1]["types"]

\* C10 witness: a place with more than 3 tags, shown with 3
C10_Witness ==
  /\ SearchDoneState
  /\ Len(OutputRecords) >= 1
  /\ Len(places[1].types) > 3
  /\ Len(OutputRecords[1]["types"]) = 3


\* the words and blanks of one piece of a query
WordsOf(piece) ==
  CASE piece = " restaurant" -> <<" ", "restaurant">>
    [] piece = " in " -> <<" ", "in", " ">>
    [] piece = "tourist attractions in " ->
         <<"tourist", " ", "attractions", " ", "in", " ">>
    [] piece = "hotels in " -> <<"hotels", " ", "in", " ">>
    [] OTHER -> <<piece>>

RECURSIVE Joined(_)
\* the text the pieces make when joined, as its words and blanks
Joined(pieces) ==
  IF pieces = <<>> THEN <<>> ELSE WordsOf(Head(pieces)) \o Joined(Tail(pieces))

\* the optional type argument of the handler (cuisine, attraction_type, hotel_type)
KindArg ==
  CASE handler = "search_restaurants" -> args.cuisine
    [] handler = "search_attractions" -> args.attraction_type
    [] handler = "search_hotels" -> args.hotel_type

\* the query the handler's template gives, as words and blanks
TemplateQuery ==
  CASE handler = "search_restaurants" ->
         (IF IsNone(KindArg) THEN <<>> ELSE <<Val(KindArg), " ">>)
           \o <<"restaurant", " ", "in", " ", args.area>>
    [] handler = "search_attractions" ->
         <<"tourist", " ", "attractions", " ", "in", " ", args.area>>
           \o (IF IsNone(KindArg) THEN <<>> ELSE <<" ", Val(KindArg)>>)
    [] handler = "search_hotels" ->
         <<"hotels", " ", "in", " ", args.area>>
           \o (IF IsNone(KindArg) THEN <<>> ELSE <<" ", Val(KindArg)>>)

TemplateType ==
  CASE handler = "search_restaurants" -> "restaurant"
    [] handler = "search_attractions" -> "tourist_attraction"
    [] handler = "search_hotels" -> "lodging"

\* search_restaurants(area="Shibuya", cuisine="ramen", price_level="2-3",
\* rating_min=4.0)
RamenScenario ==
  /\ Done("search_restaurants")
  /\ args.area = "Shibuya" /\ args.cuisine = Some("ramen")
  /\ args.price_level = Some(<<"2", "-", "3">>) /\ args.rating_min = Some(40)

\* search_hotels(area="Tokyo", price_level="bad-input")
BadInputScenario ==
  /\ Done("search_hotels")
  /\ args.area = "Tokyo" /\ IsNone(args.hotel_type)
  /\ args.price_level = Some(BadInput)

\* C11: the outgoing request of each search handler has the query and the
\* type of the handler's template; the ramen search sends "ramen restaurant in
\* Shibuya", type restaurant, minprice=2, maxprice=3, and the hotel search with
\* price_level "bad-input" sends "hotels in Tokyo" with no price filter
C11_QueryTemplate ==
  /\ SearchDoneState =>
       /\ Joined(request["query"]) = TemplateQuery
       /\ "type" \in DOMAIN request /\ request["type"] = TemplateType
  /\ RamenScenario =>
       /\ Joined(request["query"])
            = <<"ramen", " ", "restaurant", " ", "in", " ", "Shibuya">>
       /\ request["type"] = "restaurant"
       /\ "minprice" \in DOMAIN request /\ request["minprice"] = 2
       /\ "maxprice" \in DOMAIN request /\ request["maxprice"] = 3
  /\ BadInputScenario =>
       /\ Joined(request["query"]) = <<"hotels", " ", "in", " ", "Tokyo">>
       /\ request["type"] = "lodging"
       /\ "minprice" \notin DOMAIN request
       /\ "maxprice" \notin DOMAIN request

\* C11 witness: the ramen search, with its price filter in the request
C11_Witness ==
  /\ RamenScenario
  /\ "minprice" \in DOMAIN request /\ request["minprice"] = 2
  /\ Len(request["query"]) = 4

\* a provider record _parse_place_result can read: it has coordinates
Parseable(raw) ==
  /\ "geometry" \in DOMAIN raw
  /\ "location" \in DOMAIN raw["geometry"]

PlaceInfoFields ==
  {"name", "address", "location", "rating", "price_level", "types", "photos",
   "opening_hours", "phone", "website"}

\* C12: search_places_async returns one complete PlaceInfo for every record
\* of the response that parses, in the provider's order, and nothing for a
\* record that does not parse
C12_IndependentParse ==
  (pc = "done" /\ handler \in SearchHandlers
                    \cup {"search_places_async", "get_nearby_places"}) =>
    LET kept == SelectSeq(RawResults, Parseable)
    IN  /\ Len(found) = Len(kept)
        /\ \A i \in 1..Len(found) :
             /\ DOMAIN found[i] = PlaceInfoFields
             /\ found[i].name = (IF "name" \in DOMAIN kept[i]
                                   THEN kept[i]["name"] ELSE "")
             /\ found[i].location.lat = kept[i]["geometry"]["location"].lat
             /\ found[i].location.lng = kept[i]["geometry"]["location"].lng
             /\ found[i].location.place_id
                  = (IF "place_id" \in DOMAIN kept[i]
                       THEN Some(kept[i]["place_id"]) ELSE None)

\* C12 witness: the record without coordinates is dropped, the one after it
\* is returned
C12_Witness ==
  /\ Done("search_places_async")
  /\ RawResults = <<PlaceNoGeometry, PlaceClosed>>
  /\ Len(found) = 1
  /\ found[1].name = "Afuri"


\* a step touches the frame of one invocation at most, and never the
\* arguments or the provider's answer of an invocation under way
OwnFrameOnly ==
  /\ \A t, u \in Tasks :
       (t # u /\ tasks'[t] # tasks[t]) => tasks'[u] = tasks[u]
  /\ \A t \in Tasks :
       (tasks[t].pc # "idle" /\ tasks'[t].pc # "idle") =>
         /\ tasks'[t].handler = tasks[t].handler
         /\ tasks'[t].args = tasks[t].args
         /\ ~IsNone(tasks[t].future) => tasks'[t].future = tasks[t].future

\* the provider got the call this invocation built, and the invocation
\* returned the string it returns when run alone on the same provider answer
AsIfAlone ==
  \A t \in Tasks :
    /\ ~IsNone(tasks[t].sent) =>
         Val(tasks[t].sent)
           = provider_call_args(tasks[t].handler, Val(tasks[t].args))
    /\ tasks[t].pc = "done" =>
         tasks[t].result
           = Some(handler_result(tasks[t].handler, Val(tasks[t].args),
                                 Val(tasks[t].future)))

\* C13: when handler invocations interleave at their provider calls, no
\* invocation changes what another one reads, and each returns the string it
\* returns when run alone with the same inputs and the same provider response
C13_Isolation == [](AsIfAlone) /\ [][OwnFrameOnly]_vars

\* C13 witness: a restaurant search has returned its records while a hotel
\* search, started on the same client, is still waiting for the provider
C13_Witness ==
  \E t, u \in Tasks :
    /\ t # u
    /\ tasks[t].pc = "done" /\ tasks[t].handler = "search_restaurants"
    /\ IsOk(Val(tasks[t].future))
    /\ tasks[u].pc = "awaiting" /\ tasks[u].handler = "search_hotels"
    /\ \E j \in 1..Len(executor) : executor[j].task = u

====
